---- MODULE Spec2Model ----
(***************************************************************************)
(* Email classification workflow of the classifier service                 *)
(* (workflows/email_classifier.py): the classify node, the confidence      *)
(* routing, the single reanalysis node and the response normalizer.        *)
(*                                                                         *)
(* Confidences and thresholds are held in hundredths (0.95 is 95).         *)
(* A text is a sequence of symbols: the characters that the normalizer     *)
(* looks at (backtick, the letters of "json", whitespace) and whole        *)
(* chunks of other text (a JSON document, a sentence of prose), each       *)
(* written as the chunk itself.                                            *)
(***************************************************************************)
EXTENDS Integers, Sequences, FiniteSets, TLC

\* ---------------------------------------------------------------- bounds
\* most whitespace characters put on either side of a model response
MaxPad == 1
\* largest retry_count handed to the routing decision in SpecRoute
MaxRetryIn == 2

\* most pieces (a fence, a tagged fence, a backtick, a space, a newline, the
\* letters json, a chunk) a text handed to the normalizer alone is made of
MaxTokens == 4

\* number of requests that run at once in SpecConc
MaxConcurrent == 2

\* longest list of examples handed to the example formatter
MaxExamples == 3

\* runs of the lifespan of the gateway in one process
MaxLifespans == 2

\* ------------------------------------------------------------- settings
None == "None"

Providers == {"gemini", "openai", "anthropic"}

high_confidence_threshold == 75

low_confidence_threshold == 50

\* values the environment can give to LOW_CONFIDENCE_THRESHOLD
Thresholds == {30, low_confidence_threshold, high_confidence_threshold}

KeyValues == {None, "sk-test"}

SettingsFields ==
    [llm_provider : Providers,
     gemini_api_key : KeyValues,
     openai_api_key : KeyValues,
     anthropic_api_key : KeyValues,
     low_confidence_threshold : Thresholds]

\* the environments considered: at most the key of the configured provider
\* is set
Settings ==
    {s \in SettingsFields :
        /\ s.llm_provider # "gemini" => s.gemini_api_key = None
        /\ s.llm_provider # "openai" => s.openai_api_key = None
        /\ s.llm_provider # "anthropic" => s.anthropic_api_key = None}

NoExc == "no exception"

\* Settings.get_api_key: the key of the configured provider, or ValueError
get_api_key(s) ==
    LET api_key == CASE s.llm_provider = "gemini" -> s.gemini_api_key
                     [] s.llm_provider = "openai" -> s.openai_api_key
                     [] s.llm_provider = "anthropic" -> s.anthropic_api_key
                     [] OTHER -> None
    IN  IF api_key \in {None, ""}
        THEN [exc |-> "ValueError", key |-> None]
        ELSE [exc |-> NoExc, key |-> api_key]

\* get_llm: the exception it raises, NoExc when it returns a model
get_llm(s) ==
    LET k == get_api_key(s)
    IN  IF k.exc # NoExc THEN k.exc
        ELSE IF s.llm_provider \in {"gemini", "openai", "anthropic"} THEN NoExc
        ELSE "ValueError"

\* ----------------------------------------------------------------- text
Whitespace == {" ", "\n"}

RECURSIVE lstrip(_)
lstrip(s) == IF s # <<>> /\ Head(s) \in Whitespace THEN lstrip(Tail(s)) ELSE s

RECURSIVE rstrip(_)
rstrip(s) ==
    IF s # <<>> /\ s[Len(s)] \in Whitespace
    THEN rstrip(SubSeq(s, 1, Len(s) - 1))
    ELSE s

\* str.strip()
strip(s) == lstrip(rstrip(s))

startswith(s, p) == Len(s) >= Len(p) /\ SubSeq(s, 1, Len(p)) = p

endswith(s, p) == Len(s) >= Len(p) /\ SubSeq(s, Len(s) - Len(p) + 1, Len(s)) = p

\* the backtick character (a string of the module cannot hold it)
Backtick == "BACKTICK"

Fence == <<Backtick, Backtick, Backtick>>

FenceJson == Fence \o <<"j", "s", "o", "n">>

\* clean_json_response that strips backticks at both ends instead of fences
clean_json_response_strip_ticks(raw) ==
    LET ws == Whitespace \cup {Backtick}
        first == {i \in 1..Len(raw) : raw[i] \notin ws}
    IN  IF first = {} THEN <<>>
        ELSE SubSeq(raw,
                    CHOOSE i \in first : \A j \in first : i <= j,
                    CHOOSE i \in first : \A j \in first : i >= j)

\* clean_json_response without the branch for a fence that has no tag
clean_json_response_tag_only(raw) ==
    LET c1 == strip(raw)
        c2 == IF startswith(c1, FenceJson) THEN SubSeq(c1, 8, Len(c1)) ELSE c1
        c3 == IF endswith(c2, Fence) THEN SubSeq(c2, 1, Len(c2) - 3) ELSE c2
    IN  strip(c3)

clean_json_response(raw) ==
    LET c1 == strip(raw)
        c2 == IF startswith(c1, FenceJson) THEN SubSeq(c1, 8, Len(c1))
              ELSE IF startswith(c1, Fence) THEN SubSeq(c1, 4, Len(c1))
              ELSE c1
        c3 == IF endswith(c2, Fence) THEN SubSeq(c2, 1, Len(c2) - 3) ELSE c2
    IN  strip(c3)

\* ----------------------------------------------------------------- JSON
\* JSON values of the confidence member, as json.loads returns them
JNum(n) == [t |-> "number", n |-> n, s |-> ""]

JStr(str) == [t |-> "string", n |-> 0, s |-> str]

JNull == [t |-> "null", n |-> 0, s |-> ""]

\* the chunks that are JSON documents, and what json.loads makes of each:
\* the type of the value, the keys of an object (the string elements of an
\* array), and the four members the nodes read
JsonValue(type, keys, category, confidence, reasoning, keywords) ==
    [type |-> type, keys |-> keys, category |-> category,
     confidence |-> confidence, reasoning |-> reasoning, keywords |-> keywords]

AllFields == {"category", "confidence", "reasoning", "keywords"}

DocSpam95 == "{\"category\": \"spam\", \"confidence\": 0.95, \"reasoning\": \"Lottery scam\", \"keywords\": [\"urgent\", \"won\"]}"

DocNeutral55 == "{\"category\": \"neutral\", \"confidence\": 0.55, \"reasoning\": \"Unclear intent\", \"keywords\": [\"urgent\"]}"

DocImportant50 == "{\"category\": \"important\", \"confidence\": 0.5, \"reasoning\": \"Deadline\", \"keywords\": []}"

DocImportant30 == "{\"category\": \"important\", \"confidence\": 0.3, \"reasoning\": \"Maybe a deadline\", \"keywords\": [\"today\"]}"

DocSpam75 == "{\"category\": \"spam\", \"confidence\": 0.75, \"reasoning\": \"Promotion\", \"keywords\": [\"offer\"]}"

DocSpam0 == "{\"category\": \"spam\", \"confidence\": 0, \"reasoning\": \"Guess\", \"keywords\": []}"

DocNeutral100 == "{\"category\": \"neutral\", \"confidence\": 1, \"reasoning\": \"Newsletter\", \"keywords\": [\"weekly\"]}"

DocSpam150 == "{\"category\": \"spam\", \"confidence\": 1.5, \"reasoning\": \"Very sure\", \"keywords\": [\"prize\"]}"

DocSpamNeg == "{\"category\": \"spam\", \"confidence\": -0.2, \"reasoning\": \"Unsure\", \"keywords\": [\"prize\"]}"

DocSpamStr90 == "{\"category\": \"spam\", \"confidence\": \"0.9\", \"reasoning\": \"Quoted number\", \"keywords\": [\"click\"]}"

DocSpamHigh == "{\"category\": \"spam\", \"confidence\": \"high\", \"reasoning\": \"Words\", \"keywords\": [\"click\"]}"

DocSpamNull == "{\"category\": \"spam\", \"confidence\": null, \"reasoning\": \"No number\", \"keywords\": [\"click\"]}"

DocPhishing == "{\"category\": \"phishing\", \"confidence\": 0.9, \"reasoning\": \"Looks like phishing\", \"keywords\": [\"link\"]}"

DocCategoryOnly == "{\"category\": \"spam\"}"

DocNoKeywords == "{\"category\": \"important\", \"confidence\": 0.8, \"reasoning\": \"Invoice due\"}"

DocNoCategory == "{\"confidence\": 0.8, \"reasoning\": \"Invoice due\", \"keywords\": [\"invoice\"]}"

DocArray == "[\"category\", \"confidence\", \"reasoning\", \"keywords\"]"

\* a chunk that is no JSON document
Prose == "I think this is spam because it mentions prizes."

JsonDocs ==
    {DocSpam95, DocNeutral55, DocImportant50, DocImportant30, DocSpam75,
     DocSpam0, DocNeutral100, DocSpam150, DocSpamNeg, DocSpamStr90,
     DocSpamHigh, DocSpamNull, DocPhishing, DocCategoryOnly, DocNoKeywords,
     DocNoCategory, DocArray}

Chunks == JsonDocs \cup {Prose}

Absent == "<absent>"

ParseDoc(d) ==
    CASE d = DocSpam95 ->
           JsonValue("object", AllFields, "spam", JNum(95), "Lottery scam", <<"urgent", "won">>)
      [] d = DocNeutral55 ->
           JsonValue("object", AllFields, "neutral", JNum(55), "Unclear intent", <<"urgent">>)
      [] d = DocImportant50 ->
           JsonValue("object", AllFields, "important", JNum(50), "Deadline", <<>>)
      [] d = DocImportant30 ->
           JsonValue("object", AllFields, "important", JNum(30), "Maybe a deadline", <<"today">>)
      [] d = DocSpam75 ->
           JsonValue("object", AllFields, "spam", JNum(75), "Promotion", <<"offer">>)
      [] d = DocSpam0 ->
           JsonValue("object", AllFields, "spam", JNum(0), "Guess", <<>>)
      [] d = DocNeutral100 ->
           JsonValue("object", AllFields, "neutral", JNum(100), "Newsletter", <<"weekly">>)
      [] d = DocSpam150 ->
           JsonValue("object", AllFields, "spam", JNum(150), "Very sure", <<"prize">>)
      [] d = DocSpamNeg ->
           JsonValue("object", AllFields, "spam", JNum(-20), "Unsure", <<"prize">>)
      [] d = DocSpamStr90 ->
           JsonValue("object", AllFields, "spam", JStr("0.9"), "Quoted number", <<"click">>)
      [] d = DocSpamHigh ->
           JsonValue("object", AllFields, "spam", JStr("high"), "Words", <<"click">>)
      [] d = DocSpamNull ->
           JsonValue("object", AllFields, "spam", JNull, "No number", <<"click">>)
      [] d = DocPhishing ->
           JsonValue("object", AllFields, "phishing", JNum(90), "Looks like phishing", <<"link">>)
      [] d = DocCategoryOnly ->
           JsonValue("object", {"category"}, "spam", JNull, Absent, <<>>)
      [] d = DocNoKeywords ->
           JsonValue("object", AllFields \ {"keywords"}, "important", JNum(80), "Invoice due", <<>>)
      [] d = DocNoCategory ->
           JsonValue("object", AllFields \ {"category"}, Absent, JNum(80), "Invoice due", <<"invoice">>)
      [] d = DocArray ->
           JsonValue("array", AllFields, Absent, JNull, Absent, <<>>)

\* json.loads: whitespace around one document is accepted; anything else
\* (no document, prose, a leftover fence or tag, two documents) is a
\* JSONDecodeError
json_loads(text) ==
    LET t == strip(text)
    IN  IF Len(t) = 1 /\ t[1] \in JsonDocs
        THEN [exc |-> NoExc, value |-> ParseDoc(t[1])]
        ELSE [exc |-> "JSONDecodeError", value |-> ParseDoc(DocArray)]

\* float(x) of a JSON value: a number as it is, a string when it spells a
\* number (ValueError otherwise), TypeError for null
float(v) ==
    CASE v.t = "number" -> [exc |-> NoExc, val |-> v.n]
      [] v.t = "string" ->
           IF v.s = "0.9" THEN [exc |-> NoExc, val |-> 90]
           ELSE [exc |-> "ValueError", val |-> 0]
      [] OTHER -> [exc |-> "TypeError", val |-> 0]

\* ---------------------------------------------------------------- state
EmailIds == {"email_1", "email_2"}

Bodies == {"Click here NOW to claim your prize!"}

Requests ==
    [email_id : EmailIds, subject : {"URGENT: You won"}, body : Bodies,
     sender : {"scam@fake-lottery.com"}]

\* EmailClassificationState as classify_email builds it
initial_state(req) ==
    [email_id |-> req.email_id, subject |-> req.subject, body |-> req.body,
     sender |-> req.sender, category |-> "", confidence |-> 0,
     reasoning |-> "", keywords |-> <<>>, retry_count |-> 0,
     processing_stage |-> "initialized"]

valid_categories == {"spam", "important", "neutral"}

\* ------------------------------------------------ completion capability
\* what llm.ainvoke does: it returns a message with a text, or raises
TextResponse(text) == [kind |-> "text", content |-> text, exc |-> NoExc]

RaiseResponse(e) == [kind |-> "raise", content |-> <<>>, exc |-> e]

NoResponse == [kind |-> "none", content |-> <<>>, exc |-> NoExc]

Pad(n) == [i \in 1..n |-> " "]

Payloads == {<<>>} \cup {<<c>> : c \in Chunks}

\* a payload as models send it: bare with spaces around, in a json block,
\* in a plain block
Wrappings(p) ==
    {Pad(n) \o p \o Pad(n) : n \in 0..MaxPad}
        \cup {FenceJson \o <<"\n">> \o p \o <<"\n">> \o Fence,
              Fence \o <<"\n">> \o p \o <<"\n">> \o Fence}

Texts == UNION {Wrappings(p) : p \in Payloads}

InvocationErrors == {"RuntimeError", "JSONDecodeError"}

Responses ==
    {TextResponse(t) : t \in Texts} \cup {RaiseResponse(e) : e \in InvocationErrors}

\* ---------------------------------------------------------------- nodes
default_confidence == 30

\* str(e) of the exception an invocation of the capability raised and the
\* handler of Exception takes
InvocationMessage(e) ==
    CASE e = "RuntimeError" -> "API quota exceeded"

\* repr() of a parsed document, as the message of the missing fields
\* quotes it
PyRepr(v) ==
    CASE v = ParseDoc(DocCategoryOnly) -> "{'category': 'spam'}"
      [] v = ParseDoc(DocNoKeywords) ->
           "{'category': 'important', 'confidence': 0.8, 'reasoning': 'Invoice due'}"
      [] v = ParseDoc(DocNoCategory) ->
           "{'confidence': 0.8, 'reasoning': 'Invoice due', 'keywords': ['invoice']}"

\* str(e) of the exception of kind e raised on the parsed document v between
\* json.loads and the return of a node
ExcMessage(e, v) ==
    CASE e = "ValueError: missing fields" ->
           "Missing required fields in response: " \o PyRepr(v)
      [] e = "ValueError: invalid category" -> "Invalid category: " \o v.category
      [] e = "TypeError" /\ v.type = "array" ->
           "list indices must be integers or slices, not str"
      [] e = "TypeError" /\ v.type # "array" ->
           "float() argument must be a string or a real number, not 'NoneType'"
      [] e = "ValueError" ->
           "could not convert string to float: '" \o v.confidence.s \o "'"

\* msg[:100]
Cut100(msg) ==
    IF Len(msg) <= 100 THEN msg
    ELSE CASE msg = "Missing required fields in response: " \o PyRepr(ParseDoc(DocNoKeywords)) ->
                "Missing required fields in response: {'category': 'important', 'confidence': 0.8, 'reasoning': 'Invo"
           [] msg = "Missing required fields in response: " \o PyRepr(ParseDoc(DocNoCategory)) ->
                "Missing required fields in response: {'confidence': 0.8, 'reasoning': 'Invoice due', 'keywords': ['i"

\* the reasoning of the handler of Exception: the prefix and str(e)[:100],
\* e being the message of the exception
ErrorReasoning(e) == "Error during classification: " \o Cut100(e)

\* classify_validate with "important" left out of the valid categories
classify_validate_two_categories(result) ==
    IF ~(AllFields \subseteq result.keys) THEN "ValueError: missing fields"
    ELSE IF result.type # "object" THEN "TypeError"
    ELSE IF result.category \notin {"spam", "neutral"} THEN "ValueError: invalid category"
    ELSE float(result.confidence).exc

\* the exception raised between json.loads and the return of the
\* classification node, NoExc when the payload passes
classify_validate(result) ==
    IF ~(AllFields \subseteq result.keys) THEN "ValueError: missing fields"
    ELSE IF result.type # "object" THEN "TypeError"
    ELSE IF result.category \notin valid_categories THEN "ValueError: invalid category"
    ELSE float(result.confidence).exc

\* json_error_state when the handler of Exception comes first and takes the
\* JSONDecodeError
json_error_state_generic(st) ==
    [st EXCEPT !.category = "neutral",
               !.confidence = default_confidence,
               !.reasoning = ErrorReasoning("Expecting value: line 1 column 1 (char 0)"),
               !.keywords = <<>>,
               !.processing_stage = "error"]

\* the state returned by the handler of json.JSONDecodeError
json_error_state(st) ==
    [st EXCEPT !.category = "neutral",
               !.confidence = default_confidence,
               !.reasoning = "Unable to parse LLM response",
               !.keywords = <<>>,
               !.processing_stage = "error_json_parse"]

\* error_state that counts the failure as a retry
error_state_counts_retry(st, e) ==
    [st EXCEPT !.category = "neutral",
               !.confidence = default_confidence,
               !.reasoning = ErrorReasoning(e),
               !.keywords = <<>>,
               !.retry_count = st.retry_count + 1,
               !.processing_stage = "error"]

\* error_state that keeps the body as the prompt holds it, cut off
error_state_cut_body(st, e) ==
    [st EXCEPT !.body = "Click here NOW",
               !.category = "neutral",
               !.confidence = default_confidence,
               !.reasoning = ErrorReasoning(e),
               !.keywords = <<>>,
               !.processing_stage = "error"]

\* the state returned by the handler of Exception, e being str(e)
error_state(st, e) ==
    [st EXCEPT !.category = "neutral",
               !.confidence = default_confidence,
               !.reasoning = ErrorReasoning(e),
               !.keywords = <<>>,
               !.processing_stage = "error"]

\* the classification node from the completion of ainvoke on: the state it
\* returns, or the exception that leaves it
classify_email_node(st, resp) ==
    IF resp.kind = "raise"
    THEN IF resp.exc = "JSONDecodeError"
         \* the handler formats response.content, which was never bound
         THEN [exc |-> "UnboundLocalError", state |-> st]
         ELSE [exc |-> NoExc,
               state |-> error_state(st, InvocationMessage(resp.exc))]
    ELSE LET parsed == json_loads(clean_json_response(resp.content))
             result == parsed.value
             e == classify_validate(result)
         IN  IF parsed.exc # NoExc
             THEN [exc |-> NoExc, state |-> json_error_state(st)]
             ELSE IF e # NoExc
             THEN [exc |-> NoExc,
                   state |-> error_state(st, ExcMessage(e, result))]
             ELSE [exc |-> NoExc,
                   state |-> [st EXCEPT !.category = result.category,
                                        !.confidence = float(result.confidence).val,
                                        !.reasoning = result.reasoning,
                                        !.keywords = result.keywords,
                                        !.processing_stage = "classified"]]

\* reanalyze_validate without the check of the category
reanalyze_validate_any_category(result) ==
    IF result.type # "object" THEN "TypeError"
    ELSE IF "category" \notin result.keys THEN "KeyError"
    ELSE IF "confidence" \notin result.keys THEN "KeyError"
    ELSE IF float(result.confidence).exc # NoExc THEN float(result.confidence).exc
    ELSE IF "reasoning" \notin result.keys THEN "KeyError"
    ELSE IF "keywords" \notin result.keys THEN "KeyError"
    ELSE NoExc

\* the exception raised between json.loads and the return of the
\* reanalysis node, NoExc when the payload passes
reanalyze_validate(result) ==
    IF result.type # "object" THEN "TypeError"
    ELSE IF "category" \notin result.keys THEN "KeyError"
    ELSE IF result.category \notin valid_categories THEN "ValueError: invalid category"
    ELSE IF "confidence" \notin result.keys THEN "KeyError"
    ELSE IF float(result.confidence).exc # NoExc THEN float(result.confidence).exc
    ELSE IF "reasoning" \notin result.keys THEN "KeyError"
    ELSE IF "keywords" \notin result.keys THEN "KeyError"
    ELSE NoExc

\* reanalyze_node without the increment of retry_count on success
reanalyze_node_no_increment(st, resp) ==
    LET parsed == json_loads(clean_json_response(resp.content))
        result == parsed.value
        failed == \/ resp.kind = "raise"
                  \/ parsed.exc # NoExc
                  \/ reanalyze_validate(result) # NoExc
    IN  IF failed
        THEN [st EXCEPT !.retry_count = st.retry_count + 1,
                        !.processing_stage = "reanalysis_failed"]
        ELSE [st EXCEPT !.category = result.category,
                        !.confidence = float(result.confidence).val,
                        !.reasoning = result.reasoning,
                        !.keywords = result.keywords,
                        !.processing_stage = "reanalyzed"]

\* reanalyze_node that falls back to the defaults of the classification
\* node when it fails
reanalyze_node_defaults(st, resp) ==
    LET parsed == json_loads(clean_json_response(resp.content))
        result == parsed.value
        failed == \/ resp.kind = "raise"
                  \/ parsed.exc # NoExc
                  \/ reanalyze_validate(result) # NoExc
    IN  IF failed
        THEN [st EXCEPT !.category = "neutral",
                        !.confidence = default_confidence,
                        !.reasoning = "Unable to parse LLM response",
                        !.keywords = <<>>,
                        !.retry_count = st.retry_count + 1,
                        !.processing_stage = "reanalysis_failed"]
        ELSE [st EXCEPT !.category = result.category,
                        !.confidence = float(result.confidence).val,
                        !.reasoning = result.reasoning,
                        !.keywords = result.keywords,
                        !.retry_count = st.retry_count + 1,
                        !.processing_stage = "reanalyzed"]

\* reanalyze_node that counts the retry only when it succeeds
reanalyze_node_failure_uncounted(st, resp) ==
    LET parsed == json_loads(clean_json_response(resp.content))
        result == parsed.value
        failed == \/ resp.kind = "raise"
                  \/ parsed.exc # NoExc
                  \/ reanalyze_validate(result) # NoExc
    IN  IF failed
        THEN [st EXCEPT !.processing_stage = "reanalysis_failed"]
        ELSE [st EXCEPT !.category = result.category,
                        !.confidence = float(result.confidence).val,
                        !.reasoning = result.reasoning,
                        !.keywords = result.keywords,
                        !.retry_count = st.retry_count + 1,
                        !.processing_stage = "reanalyzed"]

\* reanalyze_node that writes the category into the state as soon as it has
\* checked it, before it reads the other fields
reanalyze_node_category_first(st, resp) ==
    LET parsed == json_loads(clean_json_response(resp.content))
        result == parsed.value
        failed == \/ resp.kind = "raise"
                  \/ parsed.exc # NoExc
                  \/ reanalyze_validate(result) # NoExc
        category_ok == /\ resp.kind = "text"
                       /\ parsed.exc = NoExc
                       /\ result.type = "object"
                       /\ "category" \in result.keys
                       /\ result.category \in valid_categories
    IN  IF failed
        THEN [st EXCEPT !.category = IF category_ok THEN result.category ELSE @,
                        !.retry_count = st.retry_count + 1,
                        !.processing_stage = "reanalysis_failed"]
        ELSE [st EXCEPT !.category = result.category,
                        !.confidence = float(result.confidence).val,
                        !.reasoning = result.reasoning,
                        !.keywords = result.keywords,
                        !.retry_count = st.retry_count + 1,
                        !.processing_stage = "reanalyzed"]

reanalyze_node(st, resp) ==
    LET parsed == json_loads(clean_json_response(resp.content))
        result == parsed.value
        failed == \/ resp.kind = "raise"
                  \/ parsed.exc # NoExc
                  \/ reanalyze_validate(result) # NoExc
    IN  IF failed
        THEN [st EXCEPT !.retry_count = st.retry_count + 1,
                        !.processing_stage = "reanalysis_failed"]
        ELSE [st EXCEPT !.category = result.category,
                        !.confidence = float(result.confidence).val,
                        !.reasoning = result.reasoning,
                        !.keywords = result.keywords,
                        !.retry_count = st.retry_count + 1,
                        !.processing_stage = "reanalyzed"]

\* -------------------------------------------------------------- routing
\* should_reanalyze comparing with the high-confidence threshold
should_reanalyze_high(st, s) ==
    IF st.retry_count >= 1 THEN "max_retries"
    ELSE IF st.confidence < high_confidence_threshold THEN "reanalyze"
    ELSE "end"

\* should_reanalyze with <= for <
should_reanalyze_inclusive(st, s) ==
    IF st.retry_count >= 1 THEN "max_retries"
    ELSE IF st.confidence <= s.low_confidence_threshold THEN "reanalyze"
    ELSE "end"

should_reanalyze(st, s) ==
    IF st.retry_count >= 1 THEN "max_retries"
    ELSE IF st.confidence < s.low_confidence_threshold THEN "reanalyze"
    ELSE "end"

\* the graph of create_classification_workflow: the entry point, the
\* conditional edges out of classify, the edge out of reanalyze
entry_point_reanalyze == "reanalyze"

entry_point == "classify"

\* the conditional edges with "reanalyze" mapped to END
EdgeFromClassify_reanalyze_to_end(r) ==
    CASE r = "reanalyze" -> "done"
      [] r = "end" -> "done"
      [] r = "max_retries" -> "done"

\* the conditional edges with "end" mapped to the reanalysis node
EdgeFromClassify_end_to_reanalyze(r) ==
    CASE r = "reanalyze" -> "reanalyze"
      [] r = "end" -> "reanalyze"
      [] r = "max_retries" -> "done"

EdgeFromClassify(r) ==
    CASE r = "reanalyze" -> "reanalyze"
      [] r = "end" -> "done"
      [] r = "max_retries" -> "done"

\* the edge out of reanalyze leading back into reanalyze
EdgeFromReanalyze_loop == "reanalyze"

EdgeFromReanalyze == "done"

\* the fields classify_email returns
extract_result(st) ==
    [email_id |-> st.email_id, category |-> st.category,
     confidence |-> st.confidence, reasoning |-> st.reasoning,
     keywords |-> st.keywords, processing_stage |-> st.processing_stage]

\* ------------------------------------------------------------- workflow
VARIABLES
    settings,        \* the cached Settings of the process
    request,         \* the arguments of classify_email
    state,           \* the state of the graph
    node_input,      \* the state handed to the node that last started
    pc,              \* start, classify, reanalyze, done (route_in, route_out)
    exc,             \* the exception that left classify_email, or NoExc
    response,        \* what the last ainvoke gave
    route,           \* the last value of should_reanalyze
    llm_calls,       \* number of calls of llm.ainvoke
    reanalyze_runs,  \* number of times the reanalysis node was entered
    result,          \* <<the dictionary classify_email returned>>, or <<>>
    raw,             \* the argument of a helper called alone
    content,         \* what that call returned
    reqs,            \* the requests in progress when several run at once
    gw               \* a request at the API gateway

vars ==
    <<settings, request, state, node_input, pc, exc, response, route,
      llm_calls, reanalyze_runs, result, raw, content, reqs, gw>>

\* what a request alone leaves untouched
aux == <<raw, content, reqs, gw>>

NoRequests == <<>>

\* no request at the gateway
NoGateway ==
    [pc |-> "off", client |-> 0, made |-> 0, running |-> {}, closed |-> {},
     held |-> 0, email |-> <<>>, called |-> FALSE,
     status |-> 0, body |-> <<>>, escaped |-> NoExc]

NoRoute == "no route"

Init ==
    /\ settings \in Settings
    /\ request \in Requests
    /\ state = initial_state(request)
    /\ node_input = initial_state(request)
    /\ pc = "start"
    /\ exc = NoExc
    /\ response = NoResponse
    /\ route = NoRoute
    /\ llm_calls = 0
    /\ reanalyze_runs = 0
    /\ result = <<>>
    /\ raw = <<>>
    /\ content = <<>>
    /\ reqs = NoRequests
    /\ gw = NoGateway

\* the graph moves to node n with state st: at END classify_email returns
\* the fields of st; a node runs up to its await of llm.ainvoke
Enter(n, st) ==
    /\ pc' = n
    /\ IF n = "done"
       THEN /\ result' = <<extract_result(st)>>
            /\ UNCHANGED <<node_input, exc, llm_calls, reanalyze_runs>>
       ELSE /\ node_input' = st
            /\ exc' = get_llm(settings)
            /\ llm_calls' = IF get_llm(settings) = NoExc
                            THEN llm_calls + 1 ELSE llm_calls
            /\ reanalyze_runs' = IF n = "reanalyze"
                                 THEN reanalyze_runs + 1 ELSE reanalyze_runs
            /\ UNCHANGED result

\* classify_email invokes the graph on the initial state
StartClassify ==
    /\ pc = "start"
    /\ exc = NoExc
    /\ Enter(entry_point, state)
    /\ UNCHANGED <<settings, request, state, response, route, aux>>

\* the first ainvoke completes: the classification node finishes, the
\* conditional edge is evaluated and the graph moves on
ClassifyReturns(resp) ==
    /\ pc = "classify"
    /\ exc = NoExc
    /\ response' = resp
    /\ LET out == classify_email_node(node_input, resp)
           r == should_reanalyze(out.state, settings)
       IN  IF out.exc # NoExc
           THEN /\ exc' = out.exc
                /\ UNCHANGED <<state, node_input, pc, route, llm_calls,
                               reanalyze_runs, result>>
           ELSE /\ state' = out.state
                /\ route' = r
                /\ Enter(EdgeFromClassify(r), out.state)
    /\ UNCHANGED <<settings, request, aux>>

\* the second ainvoke completes: the reanalysis node finishes and the graph
\* follows its edge
ReanalyzeReturns(resp) ==
    /\ pc = "reanalyze"
    /\ exc = NoExc
    /\ response' = resp
    /\ state' = reanalyze_node(node_input, resp)
    /\ Enter(EdgeFromReanalyze, reanalyze_node(node_input, resp))
    /\ UNCHANGED <<settings, request, route, aux>>

\* node_on_cancel of a node that takes the cancellation for a failure and
\* writes part of its failure update
node_on_cancel_partial(st) ==
    [st EXCEPT !.retry_count = st.retry_count + 1]

\* the state of the graph after a node was cancelled at its await, given
\* the state the node was handed: a node writes nothing before it returns
node_on_cancel(st) == st

\* the request is cancelled while a node waits for llm.ainvoke:
\* CancelledError is raised at the await, no handler of the node takes it
\* (it is no Exception) and it leaves classify_email
Cancel ==
    /\ pc \in {"classify", "reanalyze"}
    /\ exc = NoExc
    /\ exc' = "CancelledError"
    /\ state' = node_on_cancel(node_input)
    /\ UNCHANGED <<settings, request, node_input, pc, response, route,
                   llm_calls, reanalyze_runs, result, aux>>

Next ==
    \/ StartClassify
    \/ \E resp \in Responses : ClassifyReturns(resp)
    \/ \E resp \in Responses : ReanalyzeReturns(resp)
    \/ Cancel

Spec == Init /\ [][Next]_vars

\* ------------------------------------- every capability call completes
\* a request whose calls of llm.ainvoke each return or raise in the end and
\* that nobody cancels
NextLive ==
    \/ StartClassify
    \/ \E resp \in Responses : ClassifyReturns(resp)
    \/ \E resp \in Responses : ReanalyzeReturns(resp)

SpecLive == Init /\ [][NextLive]_vars /\ WF_vars(NextLive)

\* ------------------------------------------- the routing decision alone
\* should_reanalyze called on its own, as the unit tests call it: on any
\* confidence and retry_count, under any settings
ConfidenceInputs == {-20, 0, 29, 30, 31, 49, 50, 51, 74, 75, 76, 95, 100, 150}

InitRoute ==
    /\ settings \in Settings
    /\ request \in Requests
    /\ \E c \in ConfidenceInputs, n \in 0..MaxRetryIn :
          state = [initial_state(request) EXCEPT !.confidence = c,
                                                 !.retry_count = n]
    /\ node_input = state
    /\ pc = "route_in"
    /\ exc = NoExc
    /\ response = NoResponse
    /\ route = NoRoute
    /\ llm_calls = 0
    /\ reanalyze_runs = 0
    /\ result = <<>>
    /\ raw = <<>>
    /\ content = <<>>
    /\ reqs = NoRequests
    /\ gw = NoGateway

RouteDecision ==
    /\ pc = "route_in"
    /\ route' = should_reanalyze(state, settings)
    /\ pc' = "route_out"
    /\ UNCHANGED <<settings, request, state, node_input, exc, response,
                   llm_calls, reanalyze_runs, result, aux>>

NextRoute == RouteDecision

SpecRoute == InitRoute /\ [][NextRoute]_vars

\* ----------------------------------------------- the normalizer alone
\* clean_json_response called on its own, as the unit tests call it, and
\* called again on what it returned
Tokens ==
    {<<Backtick>>, Fence, FenceJson, <<" ">>, <<"\n">>,
     <<"j", "s", "o", "n">>, <<DocSpam95>>}

RECURSIVE Flatten(_)
Flatten(ts) == IF ts = <<>> THEN <<>> ELSE Head(ts) \o Flatten(Tail(ts))

NormInputs ==
    {Flatten(ts) : ts \in UNION {[1..n -> Tokens] : n \in 0..MaxTokens}}

\* Settings() with nothing in the environment
DefaultSettings ==
    [llm_provider |-> "gemini", gemini_api_key |-> None,
     openai_api_key |-> None, anthropic_api_key |-> None,
     low_confidence_threshold |-> low_confidence_threshold]

DefaultRequest == CHOOSE r \in Requests : r.email_id = "email_1"

InitNorm ==
    /\ raw \in NormInputs
    /\ content = <<>>
    /\ pc = "norm_in"
    /\ settings = DefaultSettings
    /\ request = DefaultRequest
    /\ state = initial_state(request)
    /\ node_input = initial_state(request)
    /\ exc = NoExc
    /\ response = NoResponse
    /\ route = NoRoute
    /\ llm_calls = 0
    /\ reanalyze_runs = 0
    /\ result = <<>>
    /\ reqs = NoRequests
    /\ gw = NoGateway

NormOnce ==
    /\ pc = "norm_in"
    /\ content' = clean_json_response(raw)
    /\ pc' = "norm_once"
    /\ UNCHANGED <<settings, request, state, node_input, exc, response, route,
                   llm_calls, reanalyze_runs, result, raw, reqs, gw>>

\* the value returned is handed to clean_json_response again
NormAgain ==
    /\ pc = "norm_once"
    /\ raw' = content
    /\ content' = clean_json_response(content)
    /\ pc' = "norm_twice"
    /\ UNCHANGED <<settings, request, state, node_input, exc, response, route,
                   llm_calls, reanalyze_runs, result, reqs, gw>>

NextNorm == NormOnce \/ NormAgain

SpecNorm == InitNorm /\ [][NextNorm]_vars

\* ------------------------------------------- the example formatter alone
\* format_examples_for_prompt(examples): the text block of few-shot examples
\* appended to a prompt. A text is a sequence of symbols: the fixed pieces
\* of the layout, the fields of an example, and the characters of a body.
BodyLimit == 200

Header == "Here are similar emails and their correct classifications:"

Marker == "..."

\* a body of n characters
BodyOfLen(n) == [i \in 1..n |-> IF i % 2 = 1 THEN "a" ELSE "b"]

\* SimilarExample objects: bodies below, at and above the limit
SimilarExamples ==
    {[email_id |-> "ex_001", subject |-> "Test Subject",
      body |-> BodyOfLen(45), sender |-> "test@example.com",
      category |-> "spam", confidence |-> "1.0", similarity_score |-> "0.92"],
     [email_id |-> "ex_002", subject |-> "Team lunch",
      body |-> BodyOfLen(200), sender |-> "hr@example.com",
      category |-> "neutral", confidence |-> "0.9", similarity_score |-> "0.88"],
     [email_id |-> "ex_003", subject |-> "Server down",
      body |-> BodyOfLen(201), sender |-> "ops@example.com",
      category |-> "important", confidence |-> "0.8", similarity_score |-> "0.81"],
     [email_id |-> "ex_long", subject |-> "Long Email",
      body |-> BodyOfLen(500), sender |-> "long@example.com",
      category |-> "neutral", confidence |-> "0.7", similarity_score |-> "0.75"]}

ExampleLists ==
    UNION {[1..n -> SimilarExamples] : n \in 0..MaxExamples}

\* body[:200], with the marker when the body was longer
CutBody(body) ==
    IF Len(body) > BodyLimit
    THEN SubSeq(body, 1, BodyLimit) \o <<Marker>>
    ELSE body

\* the block of the i-th example
ExampleBlock(i, ex) ==
    <<"\n", "Example ", ToString(i), ":", "\n",
      "Subject: ", ex.subject, "\n",
      "From: ", ex.sender, "\n",
      "Body: ">> \o CutBody(ex.body) \o
    <<"\n", "Classification: ", ex.category,
      " (confidence: ", ex.confidence,
      ", similarity: ", ex.similarity_score, ")", "\n">>

RECURSIVE ExampleBlocks(_, _)
ExampleBlocks(examples, i) ==
    IF i > Len(examples) THEN <<>>
    ELSE ExampleBlock(i, examples[i]) \o ExampleBlocks(examples, i + 1)

\* format_examples_for_prompt that writes the marker after every body
format_examples_always_marked(examples) ==
    LET RECURSIVE Blocks(_)
        Blocks(i) ==
            IF i > Len(examples) THEN <<>>
            ELSE <<"\n", "Example ", ToString(i), ":", "\n",
                   "Subject: ", examples[i].subject, "\n",
                   "From: ", examples[i].sender, "\n", "Body: ">>
                 \o SubSeq(examples[i].body, 1,
                           IF Len(examples[i].body) > BodyLimit
                           THEN BodyLimit ELSE Len(examples[i].body))
                 \o <<Marker, "\n", "Classification: ", examples[i].category,
                      " (confidence: ", examples[i].confidence,
                      ", similarity: ", examples[i].similarity_score, ")",
                      "\n">>
                 \o Blocks(i + 1)
    IN  IF examples = <<>> THEN <<>> ELSE <<Header, "\n">> \o Blocks(1)

format_examples_for_prompt(examples) ==
    IF examples = <<>> THEN <<>>
    ELSE <<Header, "\n">> \o ExampleBlocks(examples, 1)

InitFmt ==
    /\ pc = "fmt_in"
    /\ raw \in ExampleLists
    /\ content = <<>>
    /\ settings = DefaultSettings
    /\ request = DefaultRequest
    /\ state = initial_state(request)
    /\ node_input = initial_state(request)
    /\ exc = NoExc
    /\ response = NoResponse
    /\ route = NoRoute
    /\ llm_calls = 0
    /\ reanalyze_runs = 0
    /\ result = <<>>
    /\ reqs = NoRequests
    /\ gw = NoGateway

FormatExamples ==
    /\ pc = "fmt_in"
    /\ content' = format_examples_for_prompt(raw)
    /\ pc' = "fmt_out"
    /\ UNCHANGED <<settings, request, state, node_input, exc, response,
                   route, llm_calls, reanalyze_runs, result, raw, reqs, gw>>

NextFmt == FormatExamples

SpecFmt == InitFmt /\ [][NextFmt]_vars

\* ------------------------------------------- several requests at once
\* classify_email called for several requests on one event loop: each call
\* builds its own state and its own graph, the calls share the module's
\* settings, and a call gives way to the others only at its awaits of
\* llm.ainvoke
ConcSettings == {s \in Settings : s.llm_provider = "gemini"}

ConcResponses ==
    {TextResponse(<<DocSpam95>>), TextResponse(<<DocImportant30>>),
     TextResponse(<<Prose>>), RaiseResponse("RuntimeError"),
     RaiseResponse("JSONDecodeError")}

\* one call of classify_email: its arguments, the state of its graph, the
\* state handed to its running node, where it is, the exception that left
\* it, what its two calls of ainvoke gave, what it returned
NewCall(req) ==
    [request |-> req, state |-> initial_state(req),
     node_input |-> initial_state(req), pc |-> "start", exc |-> NoExc,
     first |-> NoResponse, second |-> NoResponse, result |-> <<>>]

\* the state the running node of call i works on, with the state of call 1
\* instead when the state is kept in one place for all calls
NodeArg_shared(rs, i) == rs[1].node_input

NodeArg(rs, i) == rs[i].node_input

\* Enter for one of several calls
EnterCall(r, n, st) ==
    IF n = "done"
    THEN [r EXCEPT !.pc = n, !.state = st, !.result = <<extract_result(st)>>]
    ELSE [r EXCEPT !.pc = n, !.state = st, !.node_input = st,
                   !.exc = get_llm(settings)]

InitConc ==
    /\ settings \in ConcSettings
    /\ reqs \in [1..MaxConcurrent -> {NewCall(req) : req \in Requests}]
    /\ request = DefaultRequest
    /\ state = initial_state(request)
    /\ node_input = initial_state(request)
    /\ pc = "start"
    /\ exc = NoExc
    /\ response = NoResponse
    /\ route = NoRoute
    /\ llm_calls = 0
    /\ reanalyze_runs = 0
    /\ result = <<>>
    /\ raw = <<>>
    /\ content = <<>>
    /\ gw = NoGateway

ConcFrame ==
    UNCHANGED <<settings, request, state, node_input, pc, exc, response,
                route, llm_calls, reanalyze_runs, result, raw, content, gw>>

ConcStart(i) ==
    /\ reqs[i].pc = "start"
    /\ reqs[i].exc = NoExc
    /\ reqs' = [reqs EXCEPT ![i] = EnterCall(@, entry_point, @.state)]
    /\ ConcFrame

ConcClassifyReturns(i, resp) ==
    /\ reqs[i].pc = "classify"
    /\ reqs[i].exc = NoExc
    /\ LET out == classify_email_node(NodeArg(reqs, i), resp)
           r == should_reanalyze(out.state, settings)
       IN  reqs' = [reqs EXCEPT ![i] =
                       IF out.exc # NoExc
                       THEN [@ EXCEPT !.first = resp, !.exc = out.exc]
                       ELSE EnterCall([@ EXCEPT !.first = resp],
                                      EdgeFromClassify(r), out.state)]
    /\ ConcFrame

ConcReanalyzeReturns(i, resp) ==
    /\ reqs[i].pc = "reanalyze"
    /\ reqs[i].exc = NoExc
    /\ reqs' = [reqs EXCEPT ![i] =
                   EnterCall([@ EXCEPT !.second = resp], EdgeFromReanalyze,
                             reanalyze_node(NodeArg(reqs, i), resp))]
    /\ ConcFrame

NextConc ==
    \E i \in 1..MaxConcurrent :
        \/ ConcStart(i)
        \/ \E resp \in ConcResponses : ConcClassifyReturns(i, resp)
        \/ \E resp \in ConcResponses : ConcReanalyzeReturns(i, resp)

SpecConc == InitConc /\ [][NextConc]_vars

\* ------------------------------------------------------ the API gateway
\* POST /api/v1/classify of the gateway: the body is validated as EmailInput,
\* the classifier client posts it to the classifier service, and the route
\* builds its response from what the client returns.

\* request bodies: the fields of EmailInput, Absent for a missing one
GatewayPayloads ==
    {[email_id |-> "test_001", subject |-> "You won a prize!",
      body |-> "Click here to claim your prize money now.",
      sender |-> "scam@fake.com"],
     [email_id |-> "test_err", subject |-> "Test error",
      body |-> "This should trigger a 500 error from the gateway.",
      sender |-> "test@test.com"],
     [email_id |-> "test_bad", subject |-> Absent, body |-> Absent,
      sender |-> Absent],
     [email_id |-> "test_short", subject |-> "Test", body |-> "Short",
      sender |-> "test@test.com"],
     [email_id |-> "test_sender", subject |-> "Test",
      body |-> "A body that is long enough.", sender |-> "not-an-address"]}

\* EmailStr: of the senders above, the ones that are addresses
EmailAddresses == {"scam@fake.com", "test@test.com"}

\* validation of the request body as EmailInput
ValidEmailInput(p) ==
    /\ p.email_id # Absent
    /\ p.subject # Absent
    /\ Len(p.subject) >= 1
    /\ Len(p.subject) <= 500
    /\ p.body # Absent
    /\ Len(p.body) >= 10
    /\ Len(p.body) <= 10000
    /\ p.sender \in EmailAddresses

\* a JSON object with classification fields: the keys it has and the values
\* of the four the gateway reads
ResultBody(keys, category, confidence, reasoning, keywords) ==
    [type |-> "object", keys |-> keys, category |-> category,
     confidence |-> confidence, reasoning |-> reasoning, keywords |-> keywords]

NoBody ==
    [type |-> "none", keys |-> {}, category |-> Absent, confidence |-> JNull,
     reasoning |-> JNull, keywords |-> <<>>]

ResponseKeys ==
    {"email_id", "category", "confidence", "reasoning", "keywords",
     "processing_stage"}

\* what classify_email of the workflow gives the classifier service: an
\* exception, or a dictionary with the six keys whose category is any string
\* it accepted, whose confidence is any float and whose reasoning is
\* whatever the model response held
WorkflowOutcomes ==
    {[exc |-> e, result |-> NoBody] : e \in {"ValueError", "UnboundLocalError"}}
    \cup {[exc |-> NoExc,
           result |-> ResultBody(ResponseKeys, c, JNum(n), r, <<"urgent", "won">>)] :
            c \in valid_categories \cup {"phishing"},
            n \in {-20, 0, 30, 95, 100, 150},
            r \in {JStr("Lottery scam"), JNull}}

\* ClassifyResponse(**result) of the classifier service: any string as
\* category passes, the confidence is a float or what converts to one (a
\* string that spells a number), reasoning must be a string
ClassifyResponse(res) ==
    IF /\ ResponseKeys \subseteq res.keys
       /\ float(res.confidence).exc = NoExc
       /\ res.reasoning.t = "string"
    THEN NoExc
    ELSE "ValidationError"

\* classify_endpoint of the classifier service: the HTTP reply, with the
\* confidence as the float ClassifyResponse made of it
classify_endpoint(o) ==
    IF o.exc # NoExc \/ ClassifyResponse(o.result) # NoExc
    THEN [kind |-> "http", status |-> 500, json |-> TRUE, body |-> NoBody]
    ELSE [kind |-> "http", status |-> 200, json |-> TRUE,
          body |-> [o.result EXCEPT
                       !.confidence = JNum(float(o.result.confidence).val)]]

\* what the post of the client can end with: a reply of the service, no
\* connection, no answer in time, a reply that is no JSON, a redirection
ServiceReplies ==
    {classify_endpoint(o) : o \in WorkflowOutcomes}
    \cup {[kind |-> "http", status |-> 301, json |-> TRUE,
            body |-> ResultBody(ResponseKeys, "spam", JNum(95),
                                JStr("Lottery scam"), <<"urgent", "won">>)]}
    \cup {[kind |-> k, status |-> 0, json |-> FALSE, body |-> NoBody] :
            k \in {"connect_error", "timeout"}}
    \cup {[kind |-> "http", status |-> 200, json |-> FALSE, body |-> NoBody],
          [kind |-> "http", status |-> 200, json |-> TRUE,
           body |-> ResultBody(ResponseKeys \ {"category"}, Absent, JNum(95),
                               JStr("Lottery scam"), <<>>)]}

\* ClassifierClient.classify_email from the completion of its post on: the
\* dictionary it returns or the exception it raises; raise_for_status
\* raises for every status that is not 2xx
ClassifierClient_classify_email(reply) ==
    CASE reply.kind = "connect_error" -> [exc |-> "ConnectError", result |-> NoBody]
      [] reply.kind = "timeout" -> [exc |-> "ReadTimeout", result |-> NoBody]
      [] ~(reply.status >= 200 /\ reply.status < 300) ->
           [exc |-> "HTTPStatusError", result |-> NoBody]
      [] ~reply.json -> [exc |-> "JSONDecodeError", result |-> NoBody]
      [] "category" \notin reply.body.keys -> [exc |-> "KeyError", result |-> NoBody]
      [] OTHER -> [exc |-> NoExc, result |-> reply.body]

\* the mock clients of the gateway tests: a dictionary with the four
\* classification keys or fewer, any values, or an exception
MockOutcomes ==
    {[exc |-> "Exception", result |-> NoBody]}
    \cup {[exc |-> NoExc, result |-> ResultBody(ks, c, n, JStr("Lottery scam"), <<"urgent">>)] :
            ks \in {AllFields, AllFields \ {"confidence"}, AllFields \ {"keywords"}},
            c \in {"spam", "SPAM"},
            n \in {JNum(95), JNum(101), JStr("0.9"), JStr("high"), JNull}}

\* the post of a client that close() has closed
ClosedClientOutcome == [exc |-> "RuntimeError", result |-> NoBody]

ClientOutcomes ==
    {ClassifierClient_classify_email(r) : r \in ServiceReplies}
        \cup MockOutcomes \cup {ClosedClientOutcome}

\* ClassificationResult without the bounds of the confidence
ClassificationResult_any_float(res) ==
    LET c == float(res.confidence)
    IN  IF /\ res.category \in {"spam", "important", "neutral"}
           /\ c.exc = NoExc
           /\ res.reasoning.t = "string"
        THEN [exc |-> NoExc,
              value |-> [category |-> res.category, confidence |-> c.val,
                         reasoning |-> res.reasoning.s,
                         keywords |-> res.keywords]]
        ELSE [exc |-> "ValidationError", value |-> <<>>]

\* ClassificationResult(category=..., confidence=..., reasoning=...,
\* keywords=...): the category is one of the three literals, the confidence
\* a number (or a string that spells one) from 0.0 to 1.0, the reasoning a
\* string
ClassificationResult(res) ==
    LET c == float(res.confidence)
    IN  IF /\ res.category \in {"spam", "important", "neutral"}
           /\ c.exc = NoExc
           /\ c.val >= 0
           /\ c.val <= 100
           /\ res.reasoning.t = "string"
        THEN [exc |-> NoExc,
              value |-> [category |-> res.category, confidence |-> c.val,
                         reasoning |-> res.reasoning.s,
                         keywords |-> res.keywords]]
        ELSE [exc |-> "ValidationError", value |-> <<>>]

\* the try block of the route from the return of the client on: the
\* exception raised in it, or the EmailProcessingResponse it builds
route_try(email, out) ==
    IF out.exc # NoExc THEN [exc |-> out.exc, value |-> <<>>]
    ELSE IF ~(AllFields \subseteq out.result.keys)
    THEN [exc |-> "KeyError", value |-> <<>>]
    ELSE IF ClassificationResult(out.result).exc # NoExc
    THEN [exc |-> ClassificationResult(out.result).exc, value |-> <<>>]
    ELSE [exc |-> NoExc,
          value |-> <<[email_id |-> email.email_id,
                       classification |-> ClassificationResult(out.result).value,
                       service_version |-> "1.0.0"]>>]

\* the route with a handler for the errors of httpx only
classify_route_http_errors_only(email, out) ==
    LET t == route_try(email, out)
    IN  IF t.exc \in {"ConnectError", "ReadTimeout", "HTTPStatusError"}
        THEN [status |-> 500, body |-> <<>>, escaped |-> NoExc]
        ELSE IF t.exc # NoExc
        THEN [status |-> 0, body |-> <<>>, escaped |-> t.exc]
        ELSE [status |-> 200, body |-> t.value, escaped |-> NoExc]

\* the route: every Exception of the try block becomes HTTPException(500)
classify_route(email, out) ==
    LET t == route_try(email, out)
    IN  IF t.exc # NoExc
        THEN [status |-> 500, body |-> <<>>, escaped |-> NoExc]
        ELSE [status |-> 200, body |-> t.value, escaped |-> NoExc]

\* a client is the number of the run of the lifespan that made it; 0 is
\* None
NoClient == 0

\* get_classifier_client: the client of the module, or HTTPException(503)
\* while there is none
get_classifier_client(classifier_client) ==
    IF classifier_client # NoClient
    THEN [exc |-> NoExc, status |-> 0, client |-> classifier_client]
    ELSE [exc |-> "HTTPException", status |-> 503, client |-> NoClient]

\* the module as imported (classifier_client = None) and a request on its
\* way in
InitGateway ==
    /\ gw \in {[NoGateway EXCEPT !.pc = "received", !.email = p] :
                 p \in GatewayPayloads}
    /\ settings = DefaultSettings
    /\ request = DefaultRequest
    /\ state = initial_state(request)
    /\ node_input = initial_state(request)
    /\ pc = "gateway"
    /\ exc = NoExc
    /\ response = NoResponse
    /\ route = NoRoute
    /\ llm_calls = 0
    /\ reanalyze_runs = 0
    /\ result = <<>>
    /\ raw = <<>>
    /\ content = <<>>
    /\ reqs = NoRequests

GatewayFrame ==
    UNCHANGED <<settings, request, state, node_input, pc, exc, response,
                route, llm_calls, reanalyze_runs, result, raw, content, reqs>>

\* lifespan up to its yield: a new client is made and put into the module
\* of the route, whatever was there
LifespanStartup ==
    /\ gw.made < MaxLifespans
    /\ gw' = [gw EXCEPT !.made = gw.made + 1,
                        !.client = gw.made + 1,
                        !.running = gw.running \cup {gw.made + 1}]
    /\ GatewayFrame

\* lifespan after its yield: the client this run made is closed; the module
\* keeps the client it has
LifespanShutdown(n) ==
    /\ n \in gw.running
    /\ gw' = [gw EXCEPT !.running = gw.running \ {n},
                        !.closed = gw.closed \cup {n}]
    /\ GatewayFrame

\* the request arrives: its body is read and get_classifier_client is
\* handed to a worker thread
GatewayReceive ==
    /\ gw.pc = "received"
    /\ gw' = [gw EXCEPT !.pc = "dependency"]
    /\ GatewayFrame

\* get_classifier_client runs in the worker thread: without a client the
\* answer is 503, with one the request holds it and goes back to the event
\* loop
SolveDependencies ==
    /\ gw.pc = "dependency"
    /\ LET d == get_classifier_client(gw.client)
       IN  gw' = IF d.exc # NoExc
                 THEN [gw EXCEPT !.pc = "responded", !.status = d.status]
                 ELSE [gw EXCEPT !.pc = "solved", !.held = d.client]
    /\ GatewayFrame

\* back on the event loop: a body that is no EmailInput is answered with
\* 422, otherwise the route runs up to its await of client.classify_email
RouteStarts ==
    /\ gw.pc = "solved"
    /\ gw' = IF ~ValidEmailInput(gw.email)
             THEN [gw EXCEPT !.pc = "responded", !.status = 422]
             ELSE [gw EXCEPT !.pc = "calling", !.called = TRUE]
    /\ GatewayFrame

\* the call of the client completes and the route finishes
ClientCompletes(out) ==
    /\ gw.pc = "calling"
    /\ out = ClosedClientOutcome => gw.held \in gw.closed
    /\ raw' = <<out>>
    /\ LET r == classify_route(gw.email, out)
       IN  gw' = [gw EXCEPT !.pc = "responded", !.status = r.status,
                            !.body = r.body, !.escaped = r.escaped]
    /\ UNCHANGED <<settings, request, state, node_input, pc, exc, response,
                   route, llm_calls, reanalyze_runs, result, content, reqs>>

NextGateway ==
    \/ LifespanStartup
    \/ \E n \in 1..MaxLifespans : LifespanShutdown(n)
    \/ GatewayReceive
    \/ SolveDependencies
    \/ RouteStarts
    \/ \E out \in ClientOutcomes : ClientCompletes(out)

SpecGateway == InitGateway /\ [][NextGateway]_vars

\* =============================================================== claims
\* the classification node has returned; until the reanalysis node returns,
\* state is the state it returned and response is the response it read
ClassifyHasRun == pc \in {"reanalyze", "done"}

ClassifyVisible == pc = "reanalyze" \/ (pc = "done" /\ reanalyze_runs = 0)

\* the request is over: classify_email returned or raised
Finished == pc = "done" \/ exc # NoExc

\* the state the classification node returned
PostClassify == IF reanalyze_runs = 0 THEN state ELSE node_input

\* C1: whatever the two capability calls give, the category classify_email
\* returns is spam, important or neutral, and so is the category of the
\* state from the return of the classification node on.
C1_CategoryAlwaysValid ==
    /\ result # <<>> => result[1].category \in {"spam", "important", "neutral"}
    /\ ClassifyHasRun => state.category \in {"spam", "important", "neutral"}

\* C1 witness: the first call gave prose, the second an out-of-set category,
\* and classify_email returned
C1_Witness ==
    /\ pc = "done"
    /\ reanalyze_runs = 1
    /\ node_input.processing_stage = "error_json_parse"
    /\ response = TextResponse(<<DocPhishing>>)
    /\ result # <<>>
    /\ result[1].category = "neutral"

\* C2: once a classification step has run, the confidence of the state, and
\* the confidence classify_email returns, is within [0.0, 1.0].
C2_ConfidenceInRange ==
    /\ ClassifyHasRun => state.confidence >= 0 /\ state.confidence <= 100
    /\ result # <<>> => result[1].confidence >= 0 /\ result[1].confidence <= 100

\* C3: classify_email never raises: no exception leaves the classification
\* node, the reanalysis node or the graph.
C3_NeverRaises == exc = NoExc

\* C4: the reanalysis node runs at most once per request and retry_count
\* never exceeds 1.
C4_AtMostOneRetry == reanalyze_runs <= 1 /\ state.retry_count <= 1

\* C4 witness: the reanalysis ran, reported a confidence that is again below
\* the threshold, and the request ended there
C4_Witness ==
    /\ pc = "done"
    /\ reanalyze_runs = 1
    /\ state.retry_count = 1
    /\ state.processing_stage = "reanalyzed"
    /\ state.confidence < settings.low_confidence_threshold

\* C5: a request makes at least 1 and at most 2 capability calls: exactly 1
\* when the confidence after the classification node is at or above the
\* low-confidence threshold, exactly 2 when it is below.
C5_OneOrTwoCalls ==
    /\ llm_calls <= 2
    /\ Finished => llm_calls >= 1
    /\ pc = "done" =>
          /\ PostClassify.confidence >= settings.low_confidence_threshold
                => llm_calls = 1
          /\ PostClassify.confidence < settings.low_confidence_threshold
                => llm_calls = 2

\* C6: the graph only moves start -> classify, classify -> reanalyze (exactly
\* when should_reanalyze of the state the classification node returned is
\* "reanalyze"), classify -> done (otherwise) and reanalyze -> done, where the
\* routing decision is not evaluated again; nothing leads into classify from
\* classify or reanalyze, nothing leads out of done.
C6_Transitions ==
    [][pc' # pc =>
          \/ pc = "start" /\ pc' = "classify"
          \/ /\ pc = "classify"
             /\ pc' = "reanalyze"
             /\ should_reanalyze(state', settings) = "reanalyze"
             /\ route' = "reanalyze"
          \/ /\ pc = "classify"
             /\ pc' = "done"
             /\ should_reanalyze(state', settings) # "reanalyze"
             /\ route' # "reanalyze"
          \/ /\ pc = "reanalyze"
             /\ pc' = "done"
             /\ route' = route]_vars

\* C6 witness: a request that went start, classify, reanalyze, done
C6_Witness ==
    /\ pc = "done"
    /\ reanalyze_runs = 1
    /\ route = "reanalyze"
    /\ state.processing_stage \in {"reanalyzed", "reanalysis_failed"}

\* C7: should_reanalyze returns "max_retries" when retry_count >= 1 whatever
\* the confidence, else "reanalyze" when confidence < threshold, else "end"
\* (so confidence equal to the threshold ends), and leaves the state as it
\* was.
C7_RoutingDecision ==
    pc = "route_out" =>
        /\ state.retry_count >= 1 => route = "max_retries"
        /\ state.retry_count < 1
              /\ state.confidence < settings.low_confidence_threshold
              => route = "reanalyze"
        /\ state.retry_count < 1
              /\ ~(state.confidence < settings.low_confidence_threshold)
              => route = "end"
        /\ state = node_input

\* C7 witness: the decision on a confidence equal to the threshold, no retry
\* used
C7_Witness ==
    /\ pc = "route_out"
    /\ state.retry_count = 0
    /\ state.confidence = settings.low_confidence_threshold
    /\ route = "end"

\* the threshold the unit tests expect: settings.confidence_threshold
confidence_threshold == 75

\* C8: under the default settings and with retry_count 0, should_reanalyze
\* returns "reanalyze" for every confidence below 0.75 and "end" for every
\* confidence at or above 0.75.
C8_DefaultThreshold075 ==
    /\ pc = "route_out"
    /\ settings.low_confidence_threshold = low_confidence_threshold
    /\ state.retry_count = 0
    => route = IF state.confidence < confidence_threshold
               THEN "reanalyze" ELSE "end"

\* a response whose text, once normalized, parses to an object with the four
\* fields, a category of the three and a confidence that float() accepts
ValidPayload(resp) ==
    /\ resp.kind = "text"
    /\ LET parsed == json_loads(clean_json_response(resp.content))
       IN  /\ parsed.exc = NoExc
           /\ parsed.value.type = "object"
           /\ {"category", "confidence", "reasoning", "keywords"}
                 \subseteq parsed.value.keys
           /\ parsed.value.category \in {"spam", "important", "neutral"}
           /\ float(parsed.value.confidence).exc = NoExc

\* C9: on a valid payload the classification node returns the parsed
\* category, reasoning and keywords, the parsed confidence as a float, the
\* stage classified, and every other field as it was in its input.
C9_ClassifySuccess ==
    ClassifyVisible /\ ValidPayload(response) =>
        LET v == json_loads(clean_json_response(response.content)).value
            in == initial_state(request)
        IN  /\ state.category = v.category
            /\ state.confidence = float(v.confidence).val
            /\ state.reasoning = v.reasoning
            /\ state.keywords = v.keywords
            /\ state.processing_stage = "classified"
            /\ state.email_id = in.email_id
            /\ state.subject = in.subject
            /\ state.sender = in.sender
            /\ state.body = in.body
            /\ state.retry_count = in.retry_count

\* C9 witness: the node read a fenced valid payload and the request ended
\* with its values
C9_Witness ==
    /\ ClassifyVisible
    /\ response = TextResponse(FenceJson \o <<"\n", DocSpam95, "\n">> \o Fence)
    /\ state.category = "spam"
    /\ state.confidence = 95
    /\ state.keywords = <<"urgent", "won">>

\* C10: on a text that is not parseable after normalization the
\* classification node returns neutral, 0.3, "Unable to parse LLM response",
\* no keywords and the stage error_json_parse, every other field as it was.
C10_ParseFailure ==
    /\ ClassifyVisible
    /\ response.kind = "text"
    /\ json_loads(clean_json_response(response.content)).exc # NoExc
    => state = [initial_state(request) EXCEPT
                    !.category = "neutral",
                    !.confidence = 30,
                    !.reasoning = "Unable to parse LLM response",
                    !.keywords = <<>>,
                    !.processing_stage = "error_json_parse"]

\* C10 witness: the node read plain prose
C10_Witness ==
    /\ ClassifyVisible
    /\ response = TextResponse(<<Prose>>)
    /\ state.processing_stage = "error_json_parse"
    /\ state.category = "neutral"

\* the classification node has read response (and returned or raised)
ClassifyRead == response # NoResponse /\ (pc = "classify" \/ ClassifyVisible)

\* the reanalysis node has read response and returned
ReanalyzeRead == pc = "done" /\ reanalyze_runs = 1

\* C11: on every failure of the classification node other than malformed
\* text (an invocation error of any kind, a parsed payload that is no object,
\* lacks a field, has a category outside the three or a confidence float()
\* rejects) the node returns neutral, 0.3, no keywords and the stage error.
C11_OtherFailureIsError ==
    /\ ClassifyRead
    /\ \/ response.kind = "raise"
       \/ /\ response.kind = "text"
          /\ json_loads(clean_json_response(response.content)).exc = NoExc
          /\ ~ValidPayload(response)
    => /\ PostClassify.category = "neutral"
       /\ PostClassify.confidence = 30
       /\ PostClassify.keywords = <<>>
       /\ PostClassify.processing_stage = "error"

\* C12: on a valid structured result with a category of the three the
\* reanalysis node returns the category, confidence, reasoning and keywords
\* of the new result, retry_count one higher and the stage reanalyzed.
C12_ReanalyzeSuccess ==
    ReanalyzeRead /\ ValidPayload(response) =>
        LET v == json_loads(clean_json_response(response.content)).value
        IN  state = [node_input EXCEPT
                        !.category = v.category,
                        !.confidence = float(v.confidence).val,
                        !.reasoning = v.reasoning,
                        !.keywords = v.keywords,
                        !.retry_count = node_input.retry_count + 1,
                        !.processing_stage = "reanalyzed"]

\* C12 witness: a failed classification was reanalyzed into spam at 0.95
C12_Witness ==
    /\ ReanalyzeRead
    /\ response = TextResponse(<<DocSpam95>>)
    /\ node_input.category = "neutral"
    /\ state.category = "spam"
    /\ state.confidence = 95
    /\ state.retry_count = 1
    /\ state.processing_stage = "reanalyzed"

\* C13: when the reanalysis call fails in any way the reanalysis node keeps
\* the category, confidence, reasoning and keywords it was handed, raises
\* retry_count by one and sets the stage reanalysis_failed.
C13_ReanalyzeFailureKeeps ==
    ReanalyzeRead /\ ~ValidPayload(response) =>
        state = [node_input EXCEPT
                    !.retry_count = node_input.retry_count + 1,
                    !.processing_stage = "reanalysis_failed"]

\* C13 witness: a low-confidence classification survived a reanalysis that
\* answered with an out-of-set category
C13_Witness ==
    /\ ReanalyzeRead
    /\ response = TextResponse(<<DocPhishing>>)
    /\ node_input.processing_stage = "classified"
    /\ state.category = "important"
    /\ state.confidence = 30
    /\ state.keywords = <<"today">>
    /\ state.retry_count = 1
    /\ state.processing_stage = "reanalysis_failed"

\* C14: when the classification node succeeds with a confidence at or above
\* the low-confidence threshold, the reanalysis node is never entered and
\* classify_email returns the stage classified with the category,
\* confidence, reasoning and keywords of that first result (so for 0.55
\* under the threshold 0.50, though 0.55 is below the high threshold 0.75).
C14_ConfidentEndsClassified ==
    /\ ClassifyHasRun
    /\ PostClassify.processing_stage = "classified"
    /\ PostClassify.confidence >= settings.low_confidence_threshold
    => /\ reanalyze_runs = 0
       /\ pc = "done"
       /\ ValidPayload(response)
       /\ LET v == json_loads(clean_json_response(response.content)).value
          IN  result = <<[email_id |-> request.email_id,
                          category |-> v.category,
                          confidence |-> float(v.confidence).val,
                          reasoning |-> v.reasoning,
                          keywords |-> v.keywords,
                          processing_stage |-> "classified"]>>

\* C14 witness: 0.55 under the threshold 0.50 ended without reanalysis
C14_Witness ==
    /\ pc = "done"
    /\ settings.low_confidence_threshold = 50
    /\ response = TextResponse(<<DocNeutral55>>)
    /\ reanalyze_runs = 0
    /\ llm_calls = 1
    /\ result # <<>>
    /\ result[1].confidence = 55
    /\ result[1].processing_stage = "classified"

\* C15: when the state the classification node returned has a confidence
\* below the low-confidence threshold, the reanalysis node runs exactly once
\* and the terminal state has retry_count 1 and the stage reanalyzed or
\* reanalysis_failed.
C15_LowConfidenceRetriesOnce ==
    ClassifyHasRun /\ PostClassify.confidence < settings.low_confidence_threshold
    => /\ reanalyze_runs = 1
       /\ pc = "done" =>
             /\ state.retry_count = 1
             /\ state.processing_stage \in {"reanalyzed", "reanalysis_failed"}
             /\ result # <<>>
             /\ result[1].processing_stage = state.processing_stage

\* C15 witness: 0.3 under the threshold 0.50 was reanalyzed and the request
\* ended
C15_Witness ==
    /\ pc = "done"
    /\ settings.low_confidence_threshold = 50
    /\ node_input.processing_stage = "classified"
    /\ node_input.confidence = 30
    /\ reanalyze_runs = 1
    /\ state.retry_count = 1

\* C20: a request cancelled while a node waits for the capability leaves the
\* state handed to that node exactly as it was: no field, retry_count and
\* processing_stage included, is updated.
C20_CancelLeavesState ==
    [][exc = NoExc /\ exc' = "CancelledError" =>
          /\ state' = state
          /\ node_input' = node_input
          /\ state' = node_input
          /\ result' = result]_vars

\* C20 witness: the request was cancelled while the reanalysis node waited
C20_Witness ==
    /\ exc = "CancelledError"
    /\ pc = "reanalyze"
    /\ state.retry_count = 0
    /\ state.processing_stage \in {"classified", "error", "error_json_parse"}
    /\ result = <<>>

\* x without the whitespace at its two ends
Trim(x) ==
    LET keep == {i \in 1..Len(x) : x[i] \notin {" ", "\n"}}
    IN  IF keep = {} THEN <<>>
        ELSE SubSeq(x,
                    CHOOSE i \in keep : \A j \in keep : i <= j,
                    CHOOSE i \in keep : \A j \in keep : i >= j)

\* x holds a run of three backticks
HasFence(x) ==
    \E i \in 1..(Len(x) - 2) :
        x[i] = Backtick /\ x[i + 1] = Backtick /\ x[i + 2] = Backtick

\* clean_json_response has been called on raw and returned content
Normalized == pc \in {"norm_once", "norm_twice"}

\* C16: the normalizer is idempotent: normalizing what it returned returns
\* the same text, also for inputs with more than one opener or closing fence.
C16_NormalizerIdempotent == pc = "norm_twice" => content = raw

\* C17: on a text without a run of three backticks the normalizer returns
\* the text with the whitespace at its ends removed; clean JSON comes back
\* as it is and the empty string as the empty string.
C17_NoFenceIsTrim == Normalized /\ ~HasFence(raw) => content = Trim(raw)

\* C17 witness: a document with whitespace around it and a single backtick
\* before it was normalized
C17_Witness ==
    /\ pc = "norm_once"
    /\ raw = <<" ", Backtick, DocSpam95, "\n">>
    /\ content = <<Backtick, DocSpam95>>

\* the payloads p for which the trimmed text is opener, p, closing fence
FencedPayloads(x, opener) ==
    LET t == Trim(x)
    IN  IF /\ Len(t) >= Len(opener) + 3
           /\ SubSeq(t, 1, Len(opener)) = opener
           /\ SubSeq(t, Len(t) - 2, Len(t)) = <<Backtick, Backtick, Backtick>>
        THEN {SubSeq(t, Len(opener) + 1, Len(t) - 3)}
        ELSE {}

TagFence == <<Backtick, Backtick, Backtick, "j", "s", "o", "n">>

BareFence == <<Backtick, Backtick, Backtick>>

StartsWithTag(p) == Len(p) >= 4 /\ SubSeq(p, 1, 4) = <<"j", "s", "o", "n">>

\* C18 as stated: for every payload p, a tagged or a bare opener, then p,
\* then a closing fence, with whitespace around, normalizes to p trimmed.
C18_FencedBlockAnyPayload ==
    Normalized =>
        \A opener \in {TagFence, BareFence} :
            \A p \in FencedPayloads(raw, opener) : content = Trim(p)

\* C18 amended: the same for every payload p, except under a bare opener a
\* payload that itself begins with the letters json (the opener and those
\* letters read as a tagged opener).
C18_FencedBlock ==
    Normalized =>
        \A opener \in {TagFence, BareFence} :
            \A p \in FencedPayloads(raw, opener) :
                ~(opener = BareFence /\ StartsWithTag(p)) => content = Trim(p)

\* C18 witness: a tagged fenced block holding a backtick and a document was
\* normalized to the backtick and the document
C18_Witness ==
    /\ pc = "norm_once"
    /\ raw = TagFence \o <<Backtick, DocSpam95>> \o BareFence
    /\ content = <<Backtick, DocSpam95>>

\* what classify_email gives for req when it runs alone under settings s
\* and its calls of ainvoke give resp1 and then resp2: the exception that
\* leaves it or the dictionary it returns
Alone(req, s, resp1, resp2) ==
    LET out == classify_email_node(initial_state(req), resp1)
    IN  IF get_llm(s) # NoExc
        THEN [exc |-> get_llm(s), result |-> <<>>]
        ELSE IF out.exc # NoExc
        THEN [exc |-> out.exc, result |-> <<>>]
        ELSE IF should_reanalyze(out.state, s) = "reanalyze"
        THEN [exc |-> NoExc,
              result |-> <<extract_result(reanalyze_node(out.state, resp2))>>]
        ELSE [exc |-> NoExc, result |-> <<extract_result(out.state)>>]

\* call i is over: it returned or raised
CallOver(i) == reqs[i].pc = "done" \/ reqs[i].exc # NoExc

\* C19: requests that run at once, their capability calls interleaved in
\* any order, each end as they would alone on the same capability
\* responses; a step of one request changes nothing of another request and
\* nothing shared.
C19_ConcurrentAsAlone ==
    /\ [](\A i \in DOMAIN reqs :
            CallOver(i) =>
                LET a == Alone(reqs[i].request, settings,
                               reqs[i].first, reqs[i].second)
                IN  reqs[i].exc = a.exc /\ reqs[i].result = a.result)
    /\ [][/\ settings' = settings
          /\ \A i \in DOMAIN reqs :
                reqs'[i] # reqs[i] =>
                    \A j \in DOMAIN reqs \ {i} : reqs'[j] = reqs[j]]_vars

\* C19 witness: two requests for different emails ran interleaved; the
\* first was reanalyzed after the second had already returned
C19_Witness ==
    /\ DOMAIN reqs = 1..MaxConcurrent
    /\ reqs[1].request.email_id # reqs[2].request.email_id
    /\ reqs[1].pc = "done"
    /\ reqs[2].pc = "done"
    /\ reqs[1].second # NoResponse
    /\ reqs[2].second = NoResponse
    /\ reqs[1].result # reqs[2].result
    /\ reqs[1].result[1].email_id = reqs[1].request.email_id

\* C23: retry_count never decreases, and only the reanalysis node changes
\* it: every path of the classification node and the routing decision leave
\* it as it was.
C23_RetryCountOnlyByReanalysis ==
    [][/\ state'.retry_count >= state.retry_count
       /\ node_input'.retry_count >= node_input.retry_count
       /\ state'.retry_count # state.retry_count =>
             /\ pc = "reanalyze"
             /\ pc' = "done"
             /\ state'.retry_count = state.retry_count + 1
       /\ pc = "classify" =>
             /\ state'.retry_count = node_input.retry_count
             /\ node_input'.retry_count = node_input.retry_count]_vars

\* C23 witness: the classification node failed, the reanalysis node ran and
\* the request ended with retry_count 1
C23_Witness ==
    /\ pc = "done"
    /\ reanalyze_runs = 1
    /\ node_input.processing_stage = "error"
    /\ node_input.retry_count = 0
    /\ state.retry_count = 1

\* the input fields of a state
InputFields(st) ==
    [email_id |-> st.email_id, subject |-> st.subject, sender |-> st.sender,
     body |-> st.body]

\* C24: email_id, subject, sender and body never change after the state is
\* created: every state a node is handed or returns has them as
\* classify_email was called with, and the email_id of the result is the
\* email_id passed in.
C24_InputFieldsKept ==
    /\ InputFields(state) = InputFields(initial_state(request))
    /\ InputFields(node_input) = InputFields(initial_state(request))
    /\ InputFields(state) =
          [email_id |-> request.email_id, subject |-> request.subject,
           sender |-> request.sender, body |-> request.body]
    /\ result # <<>> => result[1].email_id = request.email_id

\* C24 witness: the request for email_2 went through the error path of the
\* classification node and a failed reanalysis and returned
C24_Witness ==
    /\ pc = "done"
    /\ request.email_id = "email_2"
    /\ node_input.processing_stage = "error"
    /\ state.processing_stage = "reanalysis_failed"
    /\ state.body = "Click here NOW to claim your prize!"
    /\ result # <<>>
    /\ result[1].email_id = "email_2"

\* C25: whenever the reanalysis node starts, the state it is handed came
\* from the classification node, has retry_count 0 and a confidence strictly
\* below the low-confidence threshold; it is never entered from the initial
\* state nor from a state it returned.
C25_ReanalyzeInput ==
    pc = "reanalyze" =>
        /\ node_input.processing_stage \in
              {"classified", "error", "error_json_parse"}
        /\ node_input.retry_count = 0
        /\ node_input.confidence < settings.low_confidence_threshold
        /\ node_input = state
        /\ reanalyze_runs = 1
        /\ route = "reanalyze"

\* C25 witness: the reanalysis node waits on the state of a parse failure
C25_Witness ==
    /\ pc = "reanalyze"
    /\ exc = NoExc
    /\ settings.low_confidence_threshold = 50
    /\ node_input.processing_stage = "error_json_parse"
    /\ node_input.confidence = 30

\* C26: if every capability call returns or raises in the end, every request
\* reaches done and returns a result whose stage is not initialized.
C26_EventuallyDone ==
    <>(/\ pc = "done"
       /\ result # <<>>
       /\ result[1].processing_stage # "initialized")

\* C27: under a low-confidence threshold above 0.3 every failure of the
\* classification node leaves confidence 0.3, routes to the reanalysis node
\* and costs a second capability call, and no returned result has the stage
\* error or error_json_parse.
C27_FailureAlwaysReanalyzed ==
    settings.low_confidence_threshold > default_confidence =>
        /\ /\ ClassifyRead
           /\ ~ValidPayload(response)
           /\ exc # "CancelledError"
           => /\ exc = NoExc
              /\ pc = "reanalyze"
              /\ PostClassify.confidence = default_confidence
              /\ llm_calls = 2
        /\ result # <<>> =>
              result[1].processing_stage \notin {"error", "error_json_parse"}

\* the four result fields of a state
ResultFields(st) == <<st.category, st.confidence, st.reasoning, st.keywords>>

\* what the four fields are when they all come from one source: the initial
\* values, the defaults of an error handler, or one model response
FromOneSource ==
    {<<"", 0, "", <<>>>>}
    \cup {<<"neutral", default_confidence, r, <<>>>> :
            r \in {"Unable to parse LLM response",
                   ErrorReasoning(InvocationMessage("RuntimeError"))} \cup
                  {ErrorReasoning(ExcMessage(classify_validate(ParseDoc(d)),
                                             ParseDoc(d))) :
                      d \in {x \in JsonDocs :
                                classify_validate(ParseDoc(x)) # NoExc}}}
    \cup {<<ParseDoc(d).category, float(ParseDoc(d).confidence).val,
            ParseDoc(d).reasoning, ParseDoc(d).keywords>> :
            d \in {x \in JsonDocs : /\ AllFields \subseteq ParseDoc(x).keys
                                    /\ float(ParseDoc(x).confidence).exc = NoExc}}

\* a response that parses to an object with a category of the three and
\* lacks one of the other fields or has a confidence float() rejects
DefectivePayload(resp) ==
    /\ resp.kind = "text"
    /\ LET parsed == json_loads(clean_json_response(resp.content))
       IN  /\ parsed.exc = NoExc
           /\ parsed.value.type = "object"
           /\ "category" \in parsed.value.keys
           /\ parsed.value.category \in {"spam", "important", "neutral"}
           /\ \/ ~({"confidence", "reasoning", "keywords"}
                      \subseteq parsed.value.keys)
              \/ float(parsed.value.confidence).exc # NoExc

\* C28: the four result fields are committed together: in every state they
\* all come from one source; a reanalysis response with a valid category and
\* a missing or non-numeric other field changes none of them, and such a
\* classification response sets all four to the error defaults.
C28_AllOrNothing ==
    /\ ResultFields(state) \in FromOneSource
    /\ ResultFields(node_input) \in FromOneSource
    /\ ReanalyzeRead /\ DefectivePayload(response) =>
          ResultFields(state) = ResultFields(node_input)
    /\ ClassifyVisible /\ DefectivePayload(response) =>
          /\ state.category = "neutral"
          /\ state.confidence = default_confidence
          /\ state.keywords = <<>>
          /\ state.processing_stage = "error"

\* C28 witness: after a classification at 0.3 the reanalysis response had a
\* valid category and a confidence that is no number, and the request ended
\* with the four fields of the first response
C28_Witness ==
    /\ pc = "done"
    /\ reanalyze_runs = 1
    /\ response = TextResponse(<<DocSpamHigh>>)
    /\ node_input.processing_stage = "classified"
    /\ ResultFields(state) =
          <<"important", 30, "Maybe a deadline", <<"today">>>>

\* C29: in every terminal state retry_count is 0 exactly when the stage is
\* classified, error or error_json_parse and one capability call was made,
\* and 1 exactly when the stage is reanalyzed or reanalysis_failed and two
\* calls were made.
C29_TerminalAgreement ==
    pc = "done" =>
        /\ state.retry_count = 0 <=>
              /\ state.processing_stage \in
                    {"classified", "error", "error_json_parse"}
              /\ llm_calls = 1
        /\ state.retry_count = 1 <=>
              /\ state.processing_stage \in {"reanalyzed", "reanalysis_failed"}
              /\ llm_calls = 2
        /\ result[1].processing_stage = state.processing_stage

\* C29 witness: a request ended after a failed reanalysis, with two calls
C29_Witness ==
    /\ pc = "done"
    /\ state.retry_count = 1
    /\ state.processing_stage = "reanalysis_failed"
    /\ llm_calls = 2

\* the positions of symbol x in text t, and the k-th of them
PositionsOf(t, x) == {i \in 1..Len(t) : t[i] = x}

KthOf(S, k) == CHOOSE p \in S : Cardinality({q \in S : q < p}) = k - 1

\* the number written after the k-th "Example " of text t
NumberShown(t, k) == t[KthOf(PositionsOf(t, "Example "), k) + 1]

\* the body written in the k-th block of text t: what stands between the
\* k-th "Body: " and the end of its line
BodyShown(t, k) ==
    LET b == KthOf(PositionsOf(t, "Body: "), k)
        e == CHOOSE i \in (b + 1)..Len(t) :
                t[i] = "\n" /\ \A j \in (b + 1)..(i - 1) : t[j] # "\n"
    IN  SubSeq(t, b + 1, e - 1)

\* C21: the example formatter returns the empty string for no examples;
\* otherwise the header line and then one block per example, numbered from
\* 1 in the order of the input, each body cut to at most 200 characters and
\* followed by the truncation marker exactly when it was cut.
C21_FormatExamples ==
    pc = "fmt_out" =>
        /\ raw = <<>> => content = <<>>
        /\ raw # <<>> =>
              /\ SubSeq(content, 1, 2) = <<Header, "\n">>
              /\ PositionsOf(content, Header) = {1}
              /\ Cardinality(PositionsOf(content, "Example ")) = Len(raw)
              /\ Cardinality(PositionsOf(content, "Body: ")) = Len(raw)
              /\ \A k \in 1..Len(raw) :
                    LET body == raw[k].body
                        shown == BodyShown(content, k)
                    IN  /\ NumberShown(content, k) = ToString(k)
                        /\ content[KthOf(PositionsOf(content, "Subject: "), k) + 1]
                              = raw[k].subject
                        /\ KthOf(PositionsOf(content, "Example "), k)
                              < KthOf(PositionsOf(content, "Body: "), k)
                        /\ Len(body) <= 200 => shown = body
                        /\ Len(body) > 200 =>
                              shown = SubSeq(body, 1, 200) \o <<"...">>

\* C21 witness: three examples were formatted, the second with a body of 500
\* characters and the third with one of exactly 200
C21_Witness ==
    /\ pc = "fmt_out"
    /\ Len(raw) = 3
    /\ raw[1].email_id = "ex_001"
    /\ raw[2].email_id = "ex_long"
    /\ raw[3].email_id = "ex_002"
    /\ Len(BodyShown(content, 2)) = 201
    /\ Len(BodyShown(content, 3)) = 200
    /\ NumberShown(content, 3) = "3"

\* the call of the client at the gateway has completed with outcome raw[1]
ClientDone == gw.pc = "responded" /\ gw.called

\* C22: a POST /api/v1/classify with valid input whose call of the
\* classifier client raises ends with status 500: the exception does not
\* leave the route and the response carries no classification.
C22_ClientErrorIs500 ==
    ClientDone /\ raw[1].exc # NoExc =>
        /\ ValidEmailInput(gw.email)
        /\ gw.status = 500
        /\ gw.escaped = NoExc
        /\ gw.body = <<>>

\* C22 witness: the mock client of the tests raised Exception and the
\* gateway answered 500
C22_Witness ==
    /\ ClientDone
    /\ gw.email.email_id = "test_err"
    /\ raw[1].exc = "Exception"
    /\ gw.status = 500

\* C30: the gateway answers 200 only with a category of the three and a
\* confidence from 0.0 to 1.0; a result of the classifier service with a
\* confidence or a category outside them ends in status 500.
C30_GatewayRejectsOutOfRange ==
    /\ gw.status = 200 =>
          /\ gw.body # <<>>
          /\ gw.body[1].classification.category \in {"spam", "important", "neutral"}
          /\ gw.body[1].classification.confidence >= 0
          /\ gw.body[1].classification.confidence <= 100
    /\ /\ ClientDone
       /\ raw[1].exc = NoExc
       /\ \/ raw[1].result.category \notin {"spam", "important", "neutral"}
          \/ /\ raw[1].result.confidence.t = "number"
             /\ \/ raw[1].result.confidence.n < 0
                \/ raw[1].result.confidence.n > 100
       => gw.status = 500 /\ gw.body = <<>>

\* C30 witness: the classifier service passed on a confidence of 1.5 with
\* its six fields and the gateway answered 500
C30_Witness ==
    /\ ClientDone
    /\ raw[1].exc = NoExc
    /\ raw[1].result.keys = ResponseKeys
    /\ raw[1].result.category = "spam"
    /\ raw[1].result.confidence = JNum(150)
    /\ gw.status = 500

====
